---- MODULE Spec2Model ----
(***************************************************************************)
(* Model of the RedisList output writer (lib/output/writer/redis_list.go): *)
(* the handle field r.client guarded by the RWMutex r.connMut, and the     *)
(* operations Connect, Write, disconnect and CloseAsync run by concurrent  *)
(* threads.  A handle is a positive integer, numbered in creation order;   *)
(* Nil (0) is the nil *redis.Client.                                       *)
(*                                                                         *)
(* Environment assumptions (the go-redis client and the remote store are   *)
(* outside the repository): Ping, RPush and Close either succeed or return *)
(* an error, chosen nondeterministically; RPush on a client that has been  *)
(* closed always returns an error; an RPush that returns an error appends  *)
(* nothing.  Connect holds the exclusive lock from its first to its last    *)
(* statement, so concurrent Connect calls run one after the other; one      *)
(* calling thread issues them.                                              *)
(*                                                                         *)
(* Spec starts from a constructed sink; SpecFair is Spec under fair         *)
(* scheduling; SpecEndpoint starts before construction and runs            *)
(* NewRedisList and Connect over a range of endpoints.                      *)
(*                                                                         *)
(* A definition introduced by "mutation:" is a faulty variant of the        *)
(* definition that follows it; it is used to test that a property depends   *)
(* on the code it is about, and is no part of the model.                    *)
(***************************************************************************)
EXTENDS Integers, Sequences, FiniteSets, TLC

\* ------------------------------------------------------------------ bounds
\* calls of Connect, Write and CloseAsync made in one behaviour
MaxCalls == 4
\* parts of a message
MaxParts == 2

\* largest DB index among the endpoints that construction is tried with
MaxDB == 11

\* ----------------------------------------------------------------- threads
Writers == {<<"w", 1>>, <<"w", 2>>}
Connectors == {<<"c", 1>>}
Closers == {"g"} \X (1..MaxCalls)
Threads == Writers \cup Connectors \cup Closers

Nil == 0
NoThread == <<"none", 0>>
Handles == 1..MaxCalls

\* a message is an ordered sequence of one or more opaque parts; part i of a
\* message written by w carries payload <<w, i>>, so that the writer and the
\* position a list entry comes from can be told
Messages(w) == {[i \in 1..k |-> <<w, i>>] : k \in 1..MaxParts}

\* errors of the store client
StoreErrors == {"netdrop", "timeout"}
ClosedErr == "closed"
PingErrors == {"dial", "auth", "probe"}
ErrNotConnected == "NotConnected"

\* ---------------------------------------------------------------- endpoint
\* r.url.Path as a sequence of characters
Paths == {<<"/", "2">>, <<"/", "x">>}
\* conf.URL, as what url.Parse makes of it: whether it parses, and its path
Endpoint(p) == [parses |-> TRUE, path |-> p]
Unparsable == [parses |-> FALSE, path |-> <<>>]
Digits == {"0", "1", "2", "3", "4", "5", "6", "7", "8", "9"}

DigitVal(c) == CASE c = "0" -> 0 [] c = "1" -> 1 [] c = "2" -> 2 [] c = "3" -> 3
                 [] c = "4" -> 4 [] c = "5" -> 5 [] c = "6" -> 6 [] c = "7" -> 7
                 [] c = "8" -> 8 [] c = "9" -> 9

RECURSIVE DecVal(_)
DecVal(s) == IF s = <<>> THEN 0
             ELSE 10 * DecVal(SubSeq(s, 1, Len(s) - 1)) + DigitVal(s[Len(s)])

\* strconv.Atoi: an optional sign followed by one or more decimal digits
AtoiBody(s) == IF s # <<>> /\ s[1] \in {"+", "-"} THEN Tail(s) ELSE s
AtoiOk(s) == AtoiBody(s) # <<>> /\ \A i \in 1..Len(AtoiBody(s)) : AtoiBody(s)[i] \in Digits
Atoi(s) == IF s # <<>> /\ s[1] = "-" THEN 0 - DecVal(AtoiBody(s)) ELSE DecVal(AtoiBody(s))

\* the decimal numeral of n
DigitChars == <<"0", "1", "2", "3", "4", "5", "6", "7", "8", "9">>
RECURSIVE ToDigits(_)
ToDigits(n) == IF n < 10 THEN <<DigitChars[n + 1]>>
               ELSE Append(ToDigits(n \div 10), DigitChars[(n % 10) + 1])

\* the paths of the endpoints that construction is tried with: none, "/",
\* the DB indexes up to MaxDB, and paths that are not non-negative integers
EndpointPaths ==
    {<<>>, <<"/">>}
    \cup {<<"/">> \o ToDigits(n) : n \in 0..MaxDB}
    \cup {<<"/", "0", "7">>, <<"/", "+", "1">>, <<"/", "-", "1">>, <<"/", "x">>,
          <<"/", "1", "x">>, <<"/", "-">>, <<"/", "1", "/">>}
Endpoints == {Unparsable} \cup {Endpoint(p) : p \in EndpointPaths}

\* url.Parse: [ok, path]
UrlParse(u) == [ok |-> u.parses, path |-> u.path]

\* ------------------------------------------------------------------- state
VARIABLES
    confURL,    \* conf.URL, the endpoint the sink is configured with
    newErr,     \* result of NewRedisList ("none" before it is called)
    urlPath,    \* r.url.Path, fixed at construction
    rclient,    \* r.client: Nil or the installed handle
    wlock,      \* r.connMut: the thread holding the exclusive lock, or NoThread
    rlocks,     \* r.connMut: the threads holding the shared lock
    created,    \* number of handles built by redis.NewClient so far
    hdb,        \* handle -> the DB index it was built with
    pinged,     \* handles whose Ping succeeded
    installed,  \* handles that have been assigned to r.client
    nclose,     \* handle -> number of Close calls issued on it
    list,       \* the remote list at conf.Key
    pc,         \* thread -> position in its code
    msg,        \* writer -> the message of its current Write
    client,     \* writer -> local variable client of Write
    idx,        \* writer -> index of the part Iter is at (1-based)
    err,        \* writer -> local err of the closure: the error of the failed RPush
    res,        \* writer -> result of its last Write ("none" while running)
    issued,     \* writer -> parts for which the current Write called RPush
    appended,   \* writer -> parts the current Write appended to the list
    reinstalled,\* writer -> history: a Connect installed a handle since the
                \* disconnect of its current Write
    cnew,       \* connector -> local variable client of Connect
    cdb,        \* connector -> local variable redisDB of Connect
    cres,       \* connector -> result of its last Connect
    ncalls,     \* number of Connect, Write and CloseAsync calls made
    dres,       \* thread -> result of its last disconnect
    spawned     \* number of goroutines started by CloseAsync

wvars == <<msg, client, idx, err, res, issued, appended, reinstalled>>
cvars == <<cnew, cdb, cres>>
hvars == <<created, hdb, pinged, installed, nclose>>
lvars == <<wlock, rlocks>>
evars == <<confURL, newErr, urlPath>>
vars == <<confURL, newErr, urlPath, rclient, wlock, rlocks, created, hdb, pinged, installed, nclose,
          list, pc, msg, client, idx, err, res, issued, appended,
          reinstalled, cnew, cdb, cres, ncalls, dres, spawned>>

\* the state before construction (urlPath is not yet set: the empty path)
Unbuilt ==
    /\ rclient = Nil
    /\ wlock = NoThread
    /\ rlocks = {}
    /\ created = 0
    /\ hdb = [h \in Handles |-> 0]
    /\ pinged = {}
    /\ installed = {}
    /\ nclose = [h \in Handles |-> 0]
    /\ list = <<>>
    /\ pc = [t \in Threads |-> IF t \in Closers THEN "g_unspawned" ELSE "idle"]
    /\ msg = [w \in Writers |-> <<>>]
    /\ client = [w \in Writers |-> Nil]
    /\ idx = [w \in Writers |-> 0]
    /\ err = [w \in Writers |-> "nil"]
    /\ res = [w \in Writers |-> "none"]
    /\ issued = [w \in Writers |-> <<>>]
    /\ appended = [w \in Writers |-> <<>>]
    /\ reinstalled = [w \in Writers |-> FALSE]
    /\ cnew = [c \in Connectors |-> Nil]
    /\ cdb = [c \in Connectors |-> 0]
    /\ cres = [c \in Connectors |-> "none"]
    /\ ncalls = 0
    /\ dres = [t \in Writers \cup Closers |-> "none"]
    /\ spawned = 0

\* lines 50-69: construction parses conf.URL and fails if it does not parse;
\* the path is kept as parsed
NewRedisList ==
    /\ newErr = "none"
    /\ IF UrlParse(confURL).ok
       THEN /\ urlPath' = UrlParse(confURL).path
            /\ newErr' = "nil"
       ELSE /\ newErr' = "parseErr"
            /\ UNCHANGED urlPath
    /\ UNCHANGED <<confURL, rclient, lvars, hvars, list, pc, wvars, cvars, ncalls,
                   dres, spawned>>

\* the state after a construction that returned a sink
Init ==
    /\ confURL \in {Endpoint(p) : p \in Paths}
    /\ newErr = "nil"
    /\ urlPath = UrlParse(confURL).path
    /\ Unbuilt

\* ------------------------------------------------------------ sync.RWMutex
\* mutation: the exclusive lock is granted while another thread holds it
LockNotExclusive == rlocks = {}
\* Lock: no writer and no reader holds the mutex
CanLock == wlock = NoThread /\ rlocks = {}
\* mutation: the shared lock is granted while the exclusive lock is held
RLockIgnoresWriter == TRUE
\* RLock: no writer holds the mutex
CanRLock == wlock = NoThread

\* ----------------------------------------------------------------- Connect
\* line 79: a caller enters Connect
ConnectCall(c) ==
    /\ newErr = "nil"
    /\ pc[c] \in {"idle", "c_done"}
    /\ ncalls < MaxCalls
    /\ ncalls' = ncalls + 1
    /\ pc' = [pc EXCEPT ![c] = "c_lock"]
    /\ cnew' = [cnew EXCEPT ![c] = Nil]
    /\ cdb' = [cdb EXCEPT ![c] = 0]
    /\ cres' = [cres EXCEPT ![c] = "none"]
    /\ UNCHANGED <<evars, rclient, lvars, hvars, list, wvars, dres, spawned>>

\* mutation: the path is ignored and DB 0 is used
ResolveDBIgnoresPath(path) == [ok |-> TRUE, db |-> 0]
\* the DB index of lines 90-98: [ok, db]
ResolveDB(path) ==
    IF Len(path) > 1
    THEN IF AtoiOk(Tail(path)) THEN [ok |-> TRUE, db |-> Atoi(Tail(path))]
         ELSE [ok |-> FALSE, db |-> 0]
    ELSE [ok |-> TRUE, db |-> 0]

\* mutation: the new client is assigned to r.client before it is probed
FieldAssignedEarly(cur, new) == new
\* r.client once the new client is built and before it is probed: the new
\* client is held in a local, the field keeps its value
FieldWhileProbing(cur, new) == cur

\* lines 80-105: take the exclusive lock, resolve the DB index and build the
\* client (no network traffic yet); an invalid DB returns with the lock released
ConnectLock(c) ==
    /\ pc[c] = "c_lock"
    /\ CanLock
    /\ IF ResolveDB(urlPath).ok
       THEN /\ wlock' = c
            /\ cdb' = [cdb EXCEPT ![c] = ResolveDB(urlPath).db]
            /\ created' = created + 1
            /\ cnew' = [cnew EXCEPT ![c] = created + 1]
            /\ hdb' = [hdb EXCEPT ![created + 1] = ResolveDB(urlPath).db]
            /\ rclient' = FieldWhileProbing(rclient, created + 1)
            /\ pc' = [pc EXCEPT ![c] = "c_ping"]
            /\ UNCHANGED cres
       ELSE /\ cres' = [cres EXCEPT ![c] = "invalidDB"]
            /\ pc' = [pc EXCEPT ![c] = "c_done"]
            /\ UNCHANGED <<wlock, cdb, created, cnew, hdb, rclient>>
    /\ UNCHANGED <<evars, rlocks, pinged, installed, nclose, list, wvars,
                   ncalls, dres, spawned>>

\* mutation: Connect returns from a failed probe without releasing the lock
LockKeptBy(t) == t
\* line 81: the holder of the exclusive lock once t's deferred Unlock has run
UnlockedBy(t) == NoThread

\* lines 107-109: the liveness probe; a failure returns it, lock released
ConnectPing(c) ==
    /\ pc[c] = "c_ping"
    /\ \E o \in {"ok"} \cup PingErrors :
         IF o = "ok"
         THEN /\ pinged' = pinged \cup {cnew[c]}
              /\ pc' = [pc EXCEPT ![c] = "c_install"]
              /\ UNCHANGED <<cres, wlock>>
         ELSE /\ cres' = [cres EXCEPT ![c] = o]
              /\ pc' = [pc EXCEPT ![c] = "c_done"]
              /\ wlock' = UnlockedBy(c)
              /\ UNCHANGED pinged
    /\ UNCHANGED <<evars, rclient, rlocks, created, hdb, installed, nclose, list, wvars,
                   cnew, cdb, ncalls, dres, spawned>>

\* lines 111-114: install the probed client and return nil, lock released
ConnectInstall(c) ==
    /\ pc[c] = "c_install"
    /\ rclient' = cnew[c]
    /\ installed' = installed \cup {cnew[c]}
    /\ cres' = [cres EXCEPT ![c] = "nil"]
    /\ wlock' = NoThread
    /\ pc' = [pc EXCEPT ![c] = "c_done"]
    /\ reinstalled' = [w \in Writers |->
                          pc[w] \in {"w_fail", "w_done"} /\ Len(issued[w]) > Len(appended[w])]
    /\ UNCHANGED <<evars, rlocks, created, hdb, pinged, nclose, list, msg, client, idx,
                   err, res, issued, appended, cnew, cdb, ncalls, dres, spawned>>

\* ------------------------------------------------------------------- Write
\* line 126: a caller enters Write with a message
WriteCall(w) ==
    /\ newErr = "nil"
    /\ pc[w] \in {"idle", "w_done"}
    /\ ncalls < MaxCalls
    /\ \E m \in Messages(w) : msg' = [msg EXCEPT ![w] = m]
    /\ ncalls' = ncalls + 1
    /\ client' = [client EXCEPT ![w] = Nil]
    /\ idx' = [idx EXCEPT ![w] = 0]
    /\ err' = [err EXCEPT ![w] = "nil"]
    /\ res' = [res EXCEPT ![w] = "none"]
    /\ issued' = [issued EXCEPT ![w] = <<>>]
    /\ appended' = [appended EXCEPT ![w] = <<>>]
    /\ reinstalled' = [reinstalled EXCEPT ![w] = FALSE]
    /\ pc' = [pc EXCEPT ![w] = "w_rlock"]
    /\ UNCHANGED <<evars, rclient, lvars, hvars, list, cvars, dres, spawned>>

\* lines 127-128: take the shared lock and read r.client under it
WriteRLock(w) ==
    /\ pc[w] = "w_rlock"
    /\ CanRLock
    /\ rlocks' = rlocks \cup {w}
    /\ client' = [client EXCEPT ![w] = rclient]
    /\ pc' = [pc EXCEPT ![w] = "w_runlock"]
    /\ UNCHANGED <<evars, rclient, wlock, hvars, list, msg, idx, err, res, issued,
                   appended, reinstalled, cvars, ncalls, dres, spawned>>

\* msg.Iter: the step after the closure returned cret for part i of m; idx 0
\* once the iteration is over
Iter(m, i, cret) ==
    IF cret # "nil" THEN [pc |-> "w_done", idx |-> 0, res |-> cret]
    ELSE IF i < Len(m) THEN [pc |-> "w_push", idx |-> i + 1, res |-> "none"]
    ELSE [pc |-> "w_done", idx |-> 0, res |-> "nil"]

\* mutation: Write returns nil when it found no client
NoClientSilent == "nil"
\* line 132: what Write returns when it found no client
NoClientErr == ErrNotConnected

\* mutation: the shared lock is not released before the pushes
RUnlockMissing(rl, w) == rl
\* line 129: the holders of the shared lock after w's RUnlock
RUnlock(rl, w) == rl \ {w}

\* lines 129-133: release the shared lock and test the snapshot
WriteRUnlock(w) ==
    /\ pc[w] = "w_runlock"
    /\ rlocks' = RUnlock(rlocks, w)
    /\ IF client[w] = Nil
       THEN /\ res' = [res EXCEPT ![w] = NoClientErr]
            /\ pc' = [pc EXCEPT ![w] = "w_done"]
            /\ UNCHANGED idx
       ELSE /\ pc' = [pc EXCEPT ![w] = "w_push"]
            /\ idx' = [idx EXCEPT ![w] = 1]
            /\ UNCHANGED res
    /\ UNCHANGED <<evars, rclient, wlock, hvars, list, msg, client, err, issued,
                   appended, reinstalled, cvars, ncalls, dres, spawned>>

\* the outcomes client.RPush can have on handle h
PushOutcomes(h) == IF nclose[h] > 0 THEN {ClosedErr} ELSE {"ok"} \cup StoreErrors

\* mutation: the push is not waited for, and the store applies it before the
\* push that preceded it
RPushOvertakes(l, v) ==
    IF l = <<>> THEN <<v>> ELSE Append(SubSeq(l, 1, Len(l) - 1), v) \o <<l[Len(l)]>>
\* mutation: the value is pushed at the head of the list
LPush(l, v) == <<v>> \o l
\* line 136: the store's tail-append of value v to list l
RPush(l, v) == Append(l, v)

\* mutation: the closure does not call r.disconnect
PushFailNoDisconnect == "w_fail"
\* line 137: where the closure goes after a failed RPush (into r.disconnect)
PushFailPc == "d_lock"

\* line 136 (and 137 on an error): one RPush of the part Iter is at
WritePush(w) ==
    /\ pc[w] = "w_push"
    /\ issued' = [issued EXCEPT ![w] = Append(@, msg[w][idx[w]])]
    /\ \E o \in PushOutcomes(client[w]) :
         IF o = "ok"
         THEN /\ list' = RPush(list, msg[w][idx[w]])
              /\ appended' = [appended EXCEPT ![w] = RPush(@, msg[w][idx[w]])]
              /\ LET n == Iter(msg[w], idx[w], "nil")
                 IN /\ pc' = [pc EXCEPT ![w] = n.pc]
                    /\ idx' = [idx EXCEPT ![w] = n.idx]
                    /\ res' = [res EXCEPT ![w] = n.res]
              /\ UNCHANGED <<err, reinstalled>>
         ELSE /\ err' = [err EXCEPT ![w] = o]
              /\ pc' = [pc EXCEPT ![w] = PushFailPc]
              /\ UNCHANGED <<list, appended, idx, res, reinstalled>>
    /\ UNCHANGED <<evars, rclient, lvars, hvars, msg, client, cvars, ncalls, dres, spawned>>

\* mutation: the closure returns the error of the store client
ClosureStoreErr(e) == e
\* mutation: the closure returns nil after a failed RPush
ClosureSwallow(e) == "nil"
\* line 139: what the closure returns after a failed RPush with error e
ClosureErr(e) == ErrNotConnected

\* mutation: the failing Write puts its client back into r.client
WriteFailReinstall(w) ==
    /\ pc[w] = "w_fail"
    /\ LET n == Iter(msg[w], idx[w], ClosureErr(err[w]))
       IN /\ pc' = [pc EXCEPT ![w] = n.pc]
          /\ idx' = [idx EXCEPT ![w] = n.idx]
          /\ res' = [res EXCEPT ![w] = n.res]
    /\ dres' = [dres EXCEPT ![w] = "none"]
    /\ rclient' = client[w]
    /\ UNCHANGED <<evars, lvars, hvars, list, msg, client, err, issued,
                   appended, reinstalled, cvars, ncalls, spawned>>

\* lines 138-142: back from r.disconnect, whose result is dropped: the error
\* is logged, the closure returns and Iter returns what the closure returned
WriteFail(w) ==
    /\ pc[w] = "w_fail"
    /\ LET n == Iter(msg[w], idx[w], ClosureErr(err[w]))
       IN /\ pc' = [pc EXCEPT ![w] = n.pc]
          /\ idx' = [idx EXCEPT ![w] = n.idx]
          /\ res' = [res EXCEPT ![w] = n.res]
    /\ err' = [err EXCEPT ![w] = "nil"]
    /\ dres' = [dres EXCEPT ![w] = "none"]
    /\ UNCHANGED <<evars, rclient, lvars, hvars, list, msg, client, issued,
                   appended, reinstalled, cvars, ncalls, spawned>>

\* -------------------------------------------------------------- disconnect
\* lines 147-148: take the exclusive lock
DisconnectLock(t) ==
    /\ pc[t] = "d_lock"
    /\ CanLock
    /\ wlock' = t
    /\ pc' = [pc EXCEPT ![t] = "d_body"]
    /\ UNCHANGED <<evars, rclient, rlocks, hvars, list, wvars, cvars, ncalls, dres, spawned>>

\* mutation: disconnect returns an error when there is no client
NoClientCloseErr == "closeErr"
\* line 154: what disconnect returns when there is no client
NoClientResult == "nil"

\* mutation: a Write's disconnect closes the client the Write was using
CloseTargetOwn(t, cur) == IF t \in Writers /\ client[t] # Nil THEN client[t] ELSE cur
\* line 150: the client that thread t's disconnect calls Close on, r.client
\* being cur
CloseTarget(t, cur) == cur

\* lines 149-150 and 154: if there is a client call Close on it, else return
\* nil with the lock released
DisconnectBody(t) ==
    /\ pc[t] = "d_body"
    /\ IF rclient # Nil
       THEN /\ \E o \in {"nil", "closeErr"} : dres' = [dres EXCEPT ![t] = o]
            /\ nclose' = [nclose EXCEPT ![CloseTarget(t, rclient)] = @ + 1]
            /\ pc' = [pc EXCEPT ![t] = "d_clear"]
            /\ UNCHANGED <<wlock, reinstalled>>
       ELSE /\ dres' = [dres EXCEPT ![t] = NoClientResult]
            /\ wlock' = NoThread
            /\ pc' = [pc EXCEPT ![t] = IF t \in Writers THEN "w_fail" ELSE "g_done"]
            /\ reinstalled' = [w \in Writers |-> IF w = t THEN FALSE ELSE reinstalled[w]]
            /\ UNCHANGED nclose
    /\ UNCHANGED <<evars, rclient, rlocks, created, hdb, pinged, installed, list, msg,
                   client, idx, err, res, issued, appended, cvars, ncalls, spawned>>

\* mutation: r.client is kept when Close returned an error
KeptOnCloseErr(o, h) == IF o = "closeErr" THEN h ELSE Nil
\* mutation: r.client is not cleared
KeptAlways(o, h) == h
\* line 151: r.client after Close returned o on handle h
ClearedClient(o, h) == Nil

\* lines 151-152: clear r.client and return what Close returned, lock released
DisconnectClear(t) ==
    /\ pc[t] = "d_clear"
    /\ rclient' = ClearedClient(dres[t], rclient)
    /\ wlock' = NoThread
    /\ pc' = [pc EXCEPT ![t] = IF t \in Writers THEN "w_fail" ELSE "g_done"]
    /\ reinstalled' = [w \in Writers |-> IF w = t THEN FALSE ELSE reinstalled[w]]
    /\ UNCHANGED <<evars, rlocks, hvars, list, msg, client, idx, err, res, issued,
                   appended, cvars, ncalls, dres, spawned>>

\* -------------------------------------------------------------- CloseAsync
\* line 159: start a goroutine that runs r.disconnect, and return
CloseAsync ==
    /\ newErr = "nil"
    /\ ncalls < MaxCalls
    /\ ncalls' = ncalls + 1
    /\ spawned' = spawned + 1
    /\ pc' = [pc EXCEPT ![<<"g", spawned + 1>>] = "d_lock"]
    /\ UNCHANGED <<evars, rclient, lvars, hvars, list, wvars, cvars, dres>>

\* ----------------------------------------------------------- specification
Next ==
    \/ \E c \in Connectors : ConnectCall(c)
    \/ \E c \in Connectors : ConnectLock(c)
    \/ \E c \in Connectors : ConnectPing(c)
    \/ \E c \in Connectors : ConnectInstall(c)
    \/ \E w \in Writers : WriteCall(w)
    \/ \E w \in Writers : WriteRLock(w)
    \/ \E w \in Writers : WriteRUnlock(w)
    \/ \E w \in Writers : WritePush(w)
    \/ \E w \in Writers : WriteFail(w)
    \/ \E t \in Writers \cup Closers : DisconnectLock(t)
    \/ \E t \in Writers \cup Closers : DisconnectBody(t)
    \/ \E t \in Writers \cup Closers : DisconnectClear(t)
    \/ CloseAsync

Spec == Init /\ [][Next]_vars

\* the steps of each thread, other than the calls it is asked to make
ConnectorStep(c) == ConnectLock(c) \/ ConnectPing(c) \/ ConnectInstall(c)
WriterStep(w) ==
    \/ WriteRLock(w) \/ WriteRUnlock(w) \/ WritePush(w) \/ WriteFail(w)
    \/ DisconnectLock(w) \/ DisconnectBody(w) \/ DisconnectClear(w)
CloserStep(g) == DisconnectLock(g) \/ DisconnectBody(g) \/ DisconnectClear(g)

\* fair scheduling: a thread that can take a step is not left waiting for
\* ever, and the network operations (Ping, RPush, Close) return; nothing is
\* assumed of the callers of Connect, Write and CloseAsync
Fairness ==
    /\ \A c \in Connectors : WF_vars(ConnectorStep(c))
    /\ \A w \in Writers : WF_vars(WriterStep(w))
    /\ \A g \in Closers : WF_vars(CloserStep(g))

SpecFair == Init /\ [][Next]_vars /\ Fairness

\* construction and connection over the endpoints: NewRedisList is called
\* with any of the endpoints, then Connect and CloseAsync are called
InitEndpoint ==
    /\ confURL \in Endpoints
    /\ newErr = "none"
    /\ urlPath = <<>>
    /\ Unbuilt

NextEndpoint ==
    \/ NewRedisList
    \/ \E c \in Connectors : ConnectCall(c)
    \/ \E c \in Connectors : ConnectLock(c)
    \/ \E c \in Connectors : ConnectPing(c)
    \/ \E c \in Connectors : ConnectInstall(c)
    \/ \E t \in Closers : DisconnectLock(t)
    \/ \E t \in Closers : DisconnectBody(t)
    \/ \E t \in Closers : DisconnectClear(t)
    \/ CloseAsync

SpecEndpoint == InitEndpoint /\ [][NextEndpoint]_vars

\* ------------------------------------------------------------------ claims
\* a push of w's current Write has failed
PushFailed(w) == Len(issued[w]) > Len(appended[w])
\* w's failed Write is past its disconnect
PastDisconnect(w) == pc[w] \in {"w_fail", "w_done"} /\ PushFailed(w)
\* this step is w's snapshot of r.client
SnapshotStep(w) == pc[w] = "w_rlock" /\ pc'[w] = "w_runlock"
\* this step ends t's disconnect
DisconnectStep(t) == pc[t] \in {"d_body", "d_clear"} /\ pc'[t] \notin {"d_body", "d_clear"}
\* this step is the Close call of t's disconnect
CloseStep(t) == pc[t] = "d_body" /\ pc'[t] = "d_clear"
\* this step is c's return from Connect with an error
ConnectErrStep(c) == pc[c] # "c_done" /\ pc'[c] = "c_done" /\ cres'[c] # "nil"

\* C1: a Write that found a client and whose pushes all succeed appends every
\* part of its message, one append per part, in part order, and returns nil;
\* while it runs, what it has appended is a prefix of the message.
C1_AllPartsAppendedInOrder ==
    \A w \in Writers :
        ~PushFailed(w) =>
            /\ appended[w] = SubSeq(msg[w], 1, Len(appended[w]))
            /\ issued[w] = appended[w]
            /\ (pc[w] = "w_done" /\ client[w] # Nil) =>
                   (res[w] = "nil" /\ appended[w] = msg[w])

C1_Witness ==
    \E w \in Writers :
        /\ pc[w] = "w_done" /\ res[w] = "nil"
        /\ Len(msg[w]) >= 2 /\ appended[w] = msg[w]

\* C2: a Write that takes the shared lock while no handle is installed (its
\* snapshot is nil) issues no push and returns NotConnected; so does every
\* Write that returns before any Connect has installed a handle.
C2_NoHandleNoPush ==
    \A w \in Writers :
        /\ client[w] = Nil => (issued[w] = <<>> /\ appended[w] = <<>>)
        /\ (pc[w] = "w_done" /\ client[w] = Nil) => res[w] = ErrNotConnected
        /\ (pc[w] = "w_done" /\ installed = {}) => res[w] = ErrNotConnected

C2_Witness ==
    \E w \in Writers :
        /\ pc[w] = "w_done" /\ client[w] = Nil /\ res[w] = ErrNotConnected
        /\ issued[w] = <<>>
        /\ \E h \in Handles : nclose[h] > 0

\* C3 as stated: when a Write whose push failed returns, no handle is
\* installed and it returns NotConnected.
C3_UnconnectedAtReturn ==
    [][\A w \in Writers :
          (pc[w] = "w_fail" /\ pc'[w] = "w_done") =>
              (rclient' = Nil /\ res'[w] = ErrNotConnected)]_vars

\* C3 amended: a Write whose push failed returns NotConnected, and from the
\* end of its disconnect on no handle is installed unless a Connect has
\* installed one since the failure; every Write that takes its snapshot in
\* that condition finds no client, issues no push and returns NotConnected.
C3_Inv ==
    \A w \in Writers :
        /\ PastDisconnect(w) => (~reinstalled[w] => rclient = Nil)
        /\ (pc[w] = "w_done" /\ PushFailed(w)) => res[w] = ErrNotConnected
        /\ (pc[w] = "w_done" /\ client[w] = Nil) =>
               (res[w] = ErrNotConnected /\ issued[w] = <<>>)

C3_Step ==
    \A v \in Writers :
        (SnapshotStep(v) /\ \E w \in Writers : PastDisconnect(w) /\ ~reinstalled[w])
            => client'[v] = Nil

C3_UnconnectedUntilConnect == []C3_Inv /\ [][C3_Step]_vars

C3_Witness ==
    \E w, v \in Writers :
        /\ pc[w] = "w_done" /\ PushFailed(w) /\ ~reinstalled[w]
        /\ res[w] = ErrNotConnected /\ rclient = Nil
        /\ pc[v] = "w_runlock" /\ client[v] = Nil

\* C4: the result of a Write is nil or NotConnected, never the error of the
\* store client: a Write whose push failed with any store error returns
\* NotConnected.
C4_OnlyNotConnected ==
    \A w \in Writers :
        /\ res[w] \in {"none", "nil", ErrNotConnected}
        /\ pc[w] = "w_fail" => err[w] \in StoreErrors \cup {ClosedErr}
        /\ (pc[w] = "w_done" /\ PushFailed(w)) => res[w] = ErrNotConnected

C4_Witness ==
    \E w \in Writers :
        /\ pc[w] = "w_done" /\ PushFailed(w) /\ res[w] = ErrNotConnected
        /\ Len(appended[w]) >= 1

\* C5: once the push of part j of a Write has failed, exactly parts 1..j-1
\* have been appended, in order, parts 1..j are the only ones pushed, and the
\* Write never pushes again.
C5_StopsAtFirstFailure ==
    \A w \in Writers :
        PushFailed(w) =>
            /\ pc[w] \in {"d_lock", "d_body", "d_clear", "w_fail", "w_done"}
            /\ Len(issued[w]) = Len(appended[w]) + 1
            /\ issued[w] = SubSeq(msg[w], 1, Len(issued[w]))
            /\ appended[w] = SubSeq(msg[w], 1, Len(issued[w]) - 1)

C5_Witness ==
    \E w \in Writers :
        /\ pc[w] = "w_done" /\ PushFailed(w)
        /\ Len(issued[w]) < Len(msg[w])

C6_Inv ==
    \A c \in Connectors :
        /\ pc[c] \in {"c_ping", "c_install"} =>
               (rclient # cnew[c] /\ cnew[c] \notin installed)
        /\ (pc[c] = "c_done" /\ cres[c] \notin {"nil", "none"} /\ cnew[c] # Nil) =>
               (rclient # cnew[c] /\ cnew[c] \notin installed)

C6_Step ==
    \A c \in Connectors :
        /\ ConnectErrStep(c) => (rclient' = rclient /\ installed' = installed)
        /\ (pc[c] = "c_lock" /\ pc'[c] = "c_ping") => rclient' = rclient

C7_DisconnectIdempotent ==
    [][\A t \in Writers \cup Closers :
          DisconnectStep(t) =>
              /\ rclient' = Nil
              /\ rclient = Nil => (dres'[t] = "nil" /\ nclose' = nclose)]_vars

\* the goroutine closed the one handle, with an error; the writer's disconnect
\* after it found no handle and returned nil
C7_Witness ==
    \E w \in Writers, g \in Closers :
        /\ created = 1 /\ nclose[1] = 1 /\ rclient = Nil
        /\ pc[g] = "g_done" /\ dres[g] = "closeErr"
        /\ pc[w] = "w_fail" /\ dres[w] = "nil"

\* C8: a disconnect that finds a handle calls Close on it once and clears
\* r.client whatever Close returned; it returns what Close returned.
C8_Inv ==
    \A t \in Writers \cup Closers :
        dres[t] = "closeErr" => \E h \in Handles : nclose[h] > 0

C8_Step ==
    \A t \in Writers \cup Closers :
        /\ (pc[t] = "d_body" /\ pc'[t] # "d_body" /\ rclient # Nil) =>
               /\ CloseStep(t)
               /\ nclose' = [nclose EXCEPT ![rclient] = nclose[rclient] + 1]
               /\ dres'[t] \in {"nil", "closeErr"}
        /\ (pc[t] = "d_clear" /\ pc'[t] # "d_clear") =>
               /\ rclient' = Nil
               /\ nclose' = nclose
               /\ dres'[t] = dres[t]
               /\ wlock' = NoThread

C8_CloseErrorStillClears == []C8_Inv /\ [][C8_Step]_vars

C8_Witness ==
    \E t \in Closers :
        pc[t] = "g_done" /\ dres[t] = "closeErr" /\ rclient = Nil

\* C9: a handle is in r.client, and in a Write's snapshot, only after its
\* Ping succeeded and Connect installed it; a Write holds the shared lock
\* exactly while it takes its snapshot, and never while Connect or disconnect
\* holds the exclusive lock.
C9_NoTornHandle ==
    /\ rclient # Nil => rclient \in (pinged \cap installed)
    /\ \A w \in Writers :
         /\ client[w] # Nil => client[w] \in (pinged \cap installed)
         /\ w \in rlocks <=> pc[w] = "w_runlock"
    /\ wlock # NoThread => rlocks = {}
    /\ \A t \in Threads : wlock = t <=> pc[t] \in {"c_ping", "c_install", "d_body", "d_clear"}

C9_Witness ==
    \E w \in Writers, c \in Connectors :
        /\ pc[w] = "w_runlock" /\ client[w] # Nil
        /\ pc[c] = "c_lock"

\* C10: r.client goes from one value to a handle only in the install step of
\* a Connect that returns nil, and a Write's snapshot is what is installed.
C10_NoSelfReconnect ==
    [][/\ (rclient' # rclient /\ rclient' # Nil) =>
              \E c \in Connectors :
                  /\ pc[c] = "c_install" /\ pc'[c] = "c_done"
                  /\ cres'[c] = "nil" /\ rclient' = cnew[c]
       /\ \A w \in Writers : SnapshotStep(w) => client'[w] = rclient]_vars

C10_Witness ==
    \E w \in Writers :
        /\ rclient = Nil /\ installed # {}
        /\ \A c \in Connectors : pc[c] = "c_done"
        /\ pc[w] = "w_done" /\ client[w] = Nil /\ res[w] = ErrNotConnected

\* the handles built by redis.NewClient on which Close has not been called
Live == {h \in 1..created : nclose[h] = 0}

\* C11: at most one handle is live at a time: in every reachable state the
\* handles created and not yet closed number at most one.
C11_AtMostOneLive == Cardinality(Live) <= 1

\* the entries of the list that writer w appended, over all its Writes
PartsOf(w) == LET FromW(e) == e[1] = w IN SelectSeq(list, FromW)

\* C12: with Writes running concurrently, the parts a Write appended are in
\* the list in part order, whatever entries of the other writer lie between
\* them: among the entries of one writer (whose Writes run one after the
\* other) a message starts at each part 1, and each later part i comes right
\* after part i - 1 of the same message.
C12_PartOrderPerMessage ==
    \A w \in Writers :
        \A p \in 1..Len(PartsOf(w)) :
            PartsOf(w)[p][2] # 1 =>
                /\ p > 1
                /\ PartsOf(w)[p - 1][2] = PartsOf(w)[p][2] - 1

\* the parts of two messages interleave in the list
C12_Witness ==
    \E i, j, k \in 1..Len(list) :
        /\ i < j /\ j < k
        /\ list[i][1] = list[k][1] /\ list[i][1] # list[j][1]
        /\ list[i][2] = 1 /\ list[k][2] = 2

\* s is the numeral of a non-negative integer: decimal digits, with or
\* without a plus sign before them
IsNumeral(s) == s # <<>> /\ \A i \in 1..Len(s) : s[i] \in Digits
NonNegInteger(s) == IsNumeral(s) \/ (s # <<>> /\ s[1] = "+" /\ IsNumeral(Tail(s)))
\* the path has a segment after the "/" and it is not a non-negative integer
BadPath(p) == Len(p) > 1 /\ ~NonNegInteger(Tail(p))
\* the endpoint does not parse as a URI, or its path is bad
Malformed(u) == ~u.parses \/ BadPath(u.path)

\* C13: for every malformed endpoint (one that does not parse as a URI, or
\* whose path segment is not a non-negative integer) construction itself
\* fails, and no handle is ever created for the sink.
C13_EagerConfigError ==
    (newErr # "none" /\ Malformed(confURL)) => (newErr = "parseErr" /\ created = 0)

\* C14: every handle is built with the DB index of the endpoint: 0 when the
\* path is absent, and N when the path is "/" followed by the numeral of N;
\* for such an endpoint Connect never fails on the DB index.
C14_DBIndexFromPath ==
    /\ \A h \in 1..created :
         /\ urlPath = <<>> => hdb[h] = 0
         /\ \A n \in 0..MaxDB : urlPath = <<"/">> \o ToDigits(n) => hdb[h] = n
    /\ (urlPath = <<>> \/ \E n \in 0..MaxDB : urlPath = <<"/">> \o ToDigits(n)) =>
           \A c \in Connectors : cres[c] # "invalidDB"

\* a handle with a two-digit DB index is installed
C14_Witness ==
    /\ Len(urlPath) = 3 /\ IsNumeral(Tail(urlPath))
    /\ rclient # Nil /\ hdb[rclient] >= 10

\* C15: when the path has a segment that is not a non-negative integer (a
\* negative one such as "/-1" included), Connect fails on the DB index: no
\* client is built and every Connect returns the invalid-DB error.
C15_BadPathNoClient ==
    BadPath(urlPath) =>
        /\ created = 0
        /\ \A c \in Connectors : pc[c] = "c_done" => cres[c] = "invalidDB"

\* C16: CloseAsync returns without waiting for the disconnect (its step
\* touches neither the lock nor the handle), and under fair scheduling, once
\* it has been called with handle h installed, eventually no handle is
\* installed and h is closed, unless a Connect installs a newer handle in
\* the meantime.
C16_CloseAsyncEventuallyCloses ==
    /\ [][spawned' # spawned =>
             (rclient' = rclient /\ nclose' = nclose /\ lvars' = lvars)]_vars
    /\ \A h \in Handles :
         (rclient = h /\ \E g \in Closers : pc[g] = "d_lock")
             ~> (\/ rclient = Nil /\ nclose[h] > 0
                 \/ \E h2 \in installed : h2 > h)

\* the goroutine of a CloseAsync has closed the one handle that was installed
C16_Witness ==
    \E g \in Closers :
        /\ pc[g] = "g_done" /\ dres[g] \in {"nil", "closeErr"}
        /\ installed = {1} /\ nclose[1] = 1 /\ rclient = Nil
        /\ \A w \in Writers : ~PushFailed(w)

\* this step is a push issued by w
PushStep(w) == pc[w] = "w_push" /\ issued'[w] # issued[w]

\* C17 as stated: once a handle has been torn down no push is issued on it
\* again by any writer, a writer in the middle of a message included.
C17_NoPushAfterTeardown ==
    [][\A w \in Writers : PushStep(w) => nclose[client[w]] = 0]_vars

\* while the lock is free r.client is not a handle that has been torn down
C17_Inv == (wlock = NoThread /\ rclient # Nil) => nclose[rclient] = 0

\* a snapshot never yields a torn-down handle, a handle is installed once and
\* before any teardown, and a push on a torn-down handle appends nothing
C17_Step ==
    /\ \A w \in Writers :
         /\ SnapshotStep(w) => (client'[w] = Nil \/ nclose[client'[w]] = 0)
         /\ (PushStep(w) /\ nclose[client[w]] > 0) =>
                (list' = list /\ err'[w] = ClosedErr /\ pc'[w] = "d_lock")
    /\ (rclient' # rclient /\ rclient' # Nil) =>
           (rclient' \notin installed /\ nclose[rclient'] = 0)

\* C17 (amended): a torn-down handle is never handed to a Write again: no
\* Write that takes its snapshot after the teardown gets it, and it is never
\* installed again.  A Write that took its snapshot before the teardown can
\* still issue pushes on it; they fail and append nothing.
C17_TornDownNeverHandedOut == []C17_Inv /\ [][C17_Step]_vars

\* a writer that had appended the first part of its message pushed the second
\* one on the handle after it was torn down
C17_Witness ==
    \E w \in Writers :
        /\ pc[w] = "d_lock" /\ err[w] = ClosedErr
        /\ Len(appended[w]) = 1 /\ Len(issued[w]) = 2
        /\ nclose[client[w]] = 1

\* C18 as stated: the disconnect of a failed Write tears down only the
\* handle the Write was using; a newer handle that a Connect installed since
\* the Write's snapshot stays installed and open.
C18_NewerHandleSurvives ==
    [][\A w \in Writers :
          ((CloseStep(w) \/ DisconnectStep(w)) /\ rclient # Nil /\ rclient # client[w]) =>
              (rclient' = rclient /\ nclose'[rclient] = 0)]_vars

\* C18 (amended): the disconnect of a failed Write tears down the handle that
\* is installed when it holds the exclusive lock, whichever handle the Write
\* was using: it calls Close on r.client and on nothing else, then clears
\* r.client; a newer handle installed since the Write's snapshot is closed
\* and uninstalled, and the handle the Write was using is not closed by it.
C18_DisconnectTearsDownInstalled ==
    [][\A w \in Writers :
          /\ (CloseStep(w) /\ rclient # client[w]) =>
                 /\ nclose'[rclient] = nclose[rclient] + 1
                 /\ nclose'[client[w]] = nclose[client[w]]
                 /\ rclient' = rclient
          /\ (pc[w] = "d_clear" /\ pc'[w] = "w_fail") =>
                 (rclient' = Nil /\ nclose' = nclose)]_vars

\* a Write that was using handle 1 failed after a Connect had installed
\* handle 2, and its disconnect closed handle 2 and left handle 1 unclosed
C18_Witness ==
    \E w \in Writers :
        /\ pc[w] = "w_fail" /\ client[w] = 1
        /\ installed = {1, 2} /\ nclose[1] = 0 /\ nclose[2] = 1
        /\ rclient = Nil /\ spawned = 0
        /\ \A v \in Writers \ {w} : ~PushFailed(v)

\* C19: Close is called on each handle at most once, whatever the
\* interleaving of failing Writes and CloseAsync goroutines.
C19_ClosedAtMostOnce == \A h \in Handles : nclose[h] <= 1

\* two failed Writes and a CloseAsync goroutine have all run disconnect, and
\* the one handle was closed once
C19_Witness ==
    /\ \A w \in Writers : PastDisconnect(w) /\ client[w] = 1
    /\ \E g \in Closers : pc[g] = "g_done"
    /\ created = 1 /\ nclose[1] = 1

\* thread t is inside a call of Connect, Write or disconnect
Busy(t) == pc[t] \notin {"idle", "w_done", "c_done", "g_unspawned", "g_done"}

\* C20: a writer holds no lock while it pushes or runs its disconnect before
\* that has the exclusive lock, and under fair scheduling, with network
\* operations that return, every call of Write, of Connect and of disconnect
\* (a Write's own or a CloseAsync goroutine's) returns.
C20_EveryCallReturns ==
    /\ [](\A w \in Writers :
            pc[w] \in {"w_push", "d_lock", "w_fail"} => (w \notin rlocks /\ wlock # w))
    /\ \A t \in Threads : Busy(t) ~> ~Busy(t)
    /\ \A w \in Writers : pc[w] = "d_lock" ~> pc[w] = "w_fail"

\* a failed Write waits for the exclusive lock that Connect holds, while the
\* other Write waits for the shared lock
C20_Witness ==
    \E w, v \in Writers, c \in Connectors :
        /\ pc[w] = "d_lock" /\ pc[v] = "w_rlock"
        /\ wlock = c
====
